---- MODULE Spec2Model ----
(***************************************************************************)
(* pasture-algorithms: RANSAC plane / line segmentation (segmentation.rs)  *)
(* and euclidean cluster extraction (cluster_extraction.rs).               *)
(*                                                                         *)
(* Positions are Vector3<f64> with small integer coordinates, thresholds   *)
(* and radii are small rationals num/den.  A distance is kept as the pair  *)
(* (num2, den2) of its squared numerator and squared denominator, i.e. the *)
(* f64 value sqrt(num2)/sqrt(den2); with these magnitudes the f64          *)
(* comparison `distance < threshold` agrees with the exact comparison of   *)
(* the squares, and den2 = 0 is the non-finite case (0/0 = NaN, x/0 = inf),*)
(* for which every `<` comparison is false.                                *)
(***************************************************************************)
EXTENDS Integers, Sequences, FiniteSets, TLC

(* ------------------------------ bounds --------------------------------- *)
MaxPts == 4
MaxIter == 2
CollinearPts == 20

(* --------------------------- Vector3<f64> ------------------------------ *)
Vec(x, y, z) == <<x, y, z>>
Sub(u, v) == <<u[1] - v[1], u[2] - v[2], u[3] - v[3]>>
Dot(u, v) == u[1] * v[1] + u[2] * v[2] + u[3] * v[3]
Cross(u, v) == <<u[2] * v[3] - u[3] * v[2],
                 u[3] * v[1] - u[1] * v[3],
                 u[1] * v[2] - u[2] * v[1]>>
Norm2(u) == Dot(u, u)

(* ------------------------------ models --------------------------------- *)
\* struct Plane { a, b, c, d, ranking }
Plane(a, b, c, d, ranking) ==
    [a |-> a, b |-> b, c |-> c, d |-> d, ranking |-> ranking]
\* struct Line { first, second, ranking }
Line(first, second, ranking) ==
    [first |-> first, second |-> second, ranking |-> ranking]

\* distance_point_plane: d = |a x + b y + c z + d|, e = sqrt(a^2+b^2+c^2), d / e
distance_point_plane(point, plane) ==
    LET d == plane.a * point[1] + plane.b * point[2] + plane.c * point[3] + plane.d
        e2 == plane.a * plane.a + plane.b * plane.b + plane.c * plane.c
    IN  [num2 |-> d * d, den2 |-> e2]

\* distance_point_line: |(second - first) x (first - point)| / |second - first|
distance_point_line(point, line) ==
    [num2 |-> Norm2(Cross(Sub(line.second, line.first), Sub(line.first, point))),
     den2 |-> Norm2(Sub(line.second, line.first))]

\* mutant: a non-strict comparison
LessThanOrEqual(distance, threshold) ==
    /\ distance.den2 > 0
    /\ threshold.num >= 0
    /\ distance.num2 * threshold.den * threshold.den
          <= threshold.num * threshold.num * distance.den2
\* mutant: a comparison that lets the non-finite distance pass
LessThanNonFinitePasses(distance, threshold) ==
    \/ distance.den2 = 0
    \/ /\ threshold.num > 0
       /\ distance.num2 * threshold.den * threshold.den
             < threshold.num * threshold.num * distance.den2
\* `distance < distance_threshold` on f64: false for NaN and +inf (den2 = 0),
\* false for every distance (>= 0) when the threshold is <= 0.
LessThan(distance, threshold) ==
    /\ distance.den2 > 0
    /\ threshold.num > 0
    /\ distance.num2 * threshold.den * threshold.den
          < threshold.num * threshold.num * distance.den2

Distance(kind, point, model) ==
    IF kind = "plane" THEN distance_point_plane(point, model)
                      ELSE distance_point_line(point, model)

(* ------------------------------ inputs --------------------------------- *)
\* The point sources: every stretch of at most MaxPts consecutive points of a
\* base cloud that holds four points not in one plane (1,2,3,4), a collinear
\* triple (3,4,5) and a coincident pair (5,6); the empty source is among them.
BaseCloud == << Vec(0, 1, 0), Vec(0, 0, 1), Vec(0, 0, 0),
                Vec(2, 0, 0), Vec(1, 0, 0), Vec(1, 0, 0) >>

Min(S) == CHOOSE x \in S : \A y \in S : x <= y

Clouds ==
    { SubSeq(BaseCloud, w[1], w[2]) :
        w \in { v \in (1 .. Len(BaseCloud)) \X (0 .. Len(BaseCloud)) :
                    v[2] - v[1] + 1 \in 0 .. MaxPts } }

Rat(num, den) == [num |-> num, den |-> den]
\* distance thresholds: 0, 1/2, 1
Thresholds == { Rat(0, 1), Rat(1, 2), Rat(1, 1) }

(* ------------------------------- state --------------------------------- *)
VARIABLES
    kind,               \* "plane" (ransac_plane) or "line" (ransac_line)
    parallel,           \* the `parallel` argument
    buffer,             \* the point source: sequence of positions
    distance_threshold, \* the threshold argument
    num_of_iterations,  \* the iteration count argument
    pc,                 \* position in the call
    iter,               \* serial path: _i of the for loop
    cur,                \* parallel path: index of the task being run
    rand1, rand2, rand3,\* the sampled indices of the running iteration (0-based)
    best_fit,           \* serial path: best model so far
    best_positions,     \* serial path: inliers of best_fit
    parts,              \* parallel path: per-iteration results, reduced pairwise
    result,             \* the returned (model, inliers), <<>> before the return
    hist                \* history: the hypothesis evaluated by each iteration

fitvars == <<kind, parallel, buffer, distance_threshold, num_of_iterations, pc,
             iter, cur, rand1, rand2, rand3, best_fit, best_positions, parts,
             result, hist>>

\* cluster extraction
VARIABLES
    tree,       \* the KdTree<Item>: its items in tree.iter() order
    radius,     \* the radius the caller wants; extract_clusters_euclidean has no such argument
    cpc,        \* position in extract_clusters_euclidean
    p,          \* number of seeds of `for p in tree.iter()` already taken
    c,          \* the clusters pushed so far
    q,          \* the queue of the current seed (item references)
    processed,  \* the items returned by the radius queries of the current seed
    counter     \* the cursor into q

clustervars == <<tree, radius, cpc, p, c, q, processed, counter>>

vars == <<fitvars, clustervars>>

\* the part of the state an operation does not use
FitIdle ==
    /\ kind = "none" /\ parallel = FALSE /\ buffer = <<>>
    /\ distance_threshold = [num |-> 0, den |-> 1] /\ num_of_iterations = 0
    /\ pc = "idle" /\ iter = 0 /\ cur = 0
    /\ rand1 = 0 /\ rand2 = 0 /\ rand3 = 0
    /\ best_fit = <<>> /\ best_positions = <<>> /\ parts = <<>>
    /\ result = <<>> /\ hist = <<>>
ClusterIdle ==
    /\ tree = <<>> /\ radius = [num |-> 0, den |-> 1] /\ cpc = "idle" /\ p = 0
    /\ c = <<>> /\ q = <<>> /\ processed = <<>> /\ counter = 0

Pending == [done |-> FALSE]
Done(hypo, positions) == [done |-> TRUE, hypo |-> hypo, positions |-> positions]

\* buffer.len()
BufLen == Len(buffer)
\* buffer.get_attribute(&POSITION_3D, index), index 0-based
Position(index) == buffer[index + 1]
\* rng.gen_range(0..buffer.len())
Range == 0 .. (BufLen - 1)

(* --------------------------- one iteration ----------------------------- *)
\* compute plane from the three positions
PlaneHypothesis(p_a, p_b, p_c) ==
    LET vec1 == Sub(p_b, p_a)
        vec2 == Sub(p_c, p_a)
        normal == Cross(vec1, vec2)
        d == 0 - Dot(normal, p_a)
    IN  Plane(normal[1], normal[2], normal[3], d, 0)

\* generate line from the two points
LineHypothesis(first, second) == Line(first, second, 0)

\* mutant: the ranking is incremented for every point, inlier or not
RECURSIVE ScoreLoopCountsAll(_, _, _, _, _, _)
ScoreLoopCountsAll(k, buf, threshold, index, curr_hypo, current_positions) ==
    IF index = Len(buf) THEN Done(curr_hypo, current_positions)
    ELSE ScoreLoopCountsAll(k, buf, threshold, index + 1,
            [curr_hypo EXCEPT !.ranking = @ + 1],
            IF LessThan(Distance(k, buf[index + 1], curr_hypo), threshold)
            THEN Append(current_positions, index)
            ELSE current_positions)

\* find all points that belong to the model: for (index, p) in buffer.iter().enumerate()
RECURSIVE ScoreLoop(_, _, _, _, _, _)
ScoreLoop(k, buf, threshold, index, curr_hypo, current_positions) ==
    IF index = Len(buf) THEN Done(curr_hypo, current_positions)
    ELSE IF LessThan(Distance(k, buf[index + 1], curr_hypo), threshold)
         THEN ScoreLoop(k, buf, threshold, index + 1,
                        [curr_hypo EXCEPT !.ranking = @ + 1],
                        Append(current_positions, index))
         ELSE ScoreLoop(k, buf, threshold, index + 1, curr_hypo, current_positions)

\* the hypothesis of the running iteration with its ranking and inlier list
PlaneIteration ==
    ScoreLoop("plane", buffer, distance_threshold, 0,
              PlaneHypothesis(Position(rand1), Position(rand2), Position(rand3)), <<>>)
LineIteration ==
    ScoreLoop("line", buffer, distance_threshold, 0,
              LineHypothesis(Position(rand1), Position(rand2)), <<>>)

\* mutant: keeps the worse model
KeepWorse(curr_hypo, best) == curr_hypo.ranking < best.ranking
\* mutant: a later hypothesis of equal ranking replaces the best one
KeepBestOrEqual(curr_hypo, best) == curr_hypo.ranking >= best.ranking
\* keep only the best model: if curr_hypo.ranking > best_fit.ranking
KeepBest(curr_hypo, best) == curr_hypo.ranking > best.ranking

\* x.ranking.cmp(&a.ranking)
RankingCmp(x, a) ==
    IF x.ranking < a.ranking THEN "Less"
    ELSE IF x.ranking = a.ranking THEN "Equal" ELSE "Greater"

\* mutant: the reduction keeps the smaller operand
MinBy(left, right) ==
    IF RankingCmp(left.hypo, right.hypo) = "Less" THEN left ELSE right
\* max_by's reduction operator: the left operand only when it compares Greater
MaxBy(left, right) ==
    IF RankingCmp(left.hypo, right.hypo) = "Greater" THEN left ELSE right

\* mutant: the starting model claims an inlier
InitialFitRanked(k) ==
    IF k = "plane" THEN Plane(0, 0, 0, 0, 1)
                   ELSE Line(Vec(0, 0, 0), Vec(0, 0, 0), 1)

\* the model a serial fit starts from
InitialFit(k) ==
    IF k = "plane" THEN Plane(0, 0, 0, 0, 0)
                   ELSE Line(Vec(0, 0, 0), Vec(0, 0, 0), 0)

(* ------------------------------ actions -------------------------------- *)
InitFit ==
    /\ ClusterIdle
    /\ kind \in {"plane", "line"}
    /\ parallel \in BOOLEAN
    /\ buffer \in Clouds
    /\ distance_threshold \in Thresholds
    /\ num_of_iterations \in 0 .. MaxIter
    /\ pc = "call"
    /\ iter = 0
    /\ cur = 0
    /\ rand1 = 0 /\ rand2 = 0 /\ rand3 = 0
    /\ best_fit = InitialFit(kind)
    /\ best_positions = <<>>
    /\ parts = <<>>
    /\ result = <<>>
    /\ hist = [i \in 1 .. num_of_iterations |-> Pending]

inputs == <<kind, parallel, buffer, distance_threshold, num_of_iterations>>

\* ransac_plane / ransac_line: dispatch on `parallel`
Dispatch ==
    /\ pc = "call"
    /\ IF parallel
       THEN /\ pc' = "par"
            /\ parts' = [i \in 1 .. num_of_iterations |-> Pending]
       ELSE /\ pc' = "for"
            /\ parts' = parts
    /\ UNCHANGED <<clustervars, inputs, iter, cur, rand1, rand2, rand3, best_fit,
                   best_positions, result, hist>>

\* serial path: the for loop enters iteration `iter` and draws rand1
SerialDraw1 ==
    /\ pc = "for"
    /\ iter < num_of_iterations
    /\ BufLen > 0
    /\ rand1' \in Range
    /\ pc' = "draw2"
    /\ UNCHANGED <<clustervars, inputs, iter, cur, rand2, rand3, best_fit, best_positions,
                   parts, result, hist>>

\* parallel path: some task not yet run starts and draws rand1
ParDraw1(i) ==
    /\ pc = "par"
    /\ i \in 1 .. Len(parts)
    /\ Len(parts) = num_of_iterations
    /\ ~parts[i].done
    /\ BufLen > 0
    /\ cur' = i
    /\ rand1' \in Range
    /\ pc' = "draw2"
    /\ UNCHANGED <<clustervars, inputs, iter, rand2, rand3, best_fit, best_positions,
                   parts, result, hist>>

\* gen_range(0..0) panics on the empty range
DrawPanic ==
    /\ \/ pc = "for" /\ iter < num_of_iterations
       \/ pc = "par" /\ num_of_iterations > 0
    /\ BufLen = 0
    /\ pc' = "panicked"
    /\ UNCHANGED <<clustervars, inputs, iter, cur, rand1, rand2, rand3, best_fit,
                   best_positions, parts, result, hist>>

\* let mut rand2 = rng.gen_range(0..buffer.len())
Draw2 ==
    /\ pc = "draw2"
    /\ rand2' \in Range
    /\ pc' = "while2"
    /\ UNCHANGED <<clustervars, inputs, iter, cur, rand1, rand3, best_fit, best_positions,
                   parts, result, hist>>

\* while rand1 == rand2 { rand2 = rng.gen_range(..) }
Redraw2 ==
    /\ pc = "while2"
    /\ rand1 = rand2
    /\ rand2' \in Range
    /\ UNCHANGED <<clustervars, inputs, pc, iter, cur, rand1, rand3, best_fit, best_positions,
                   parts, result, hist>>

\* plane fit: let mut rand3 = rng.gen_range(0..buffer.len())
Draw3 ==
    /\ pc = "while2"
    /\ kind = "plane"
    /\ rand1 # rand2
    /\ rand3' \in Range
    /\ pc' = "while3"
    /\ UNCHANGED <<clustervars, inputs, iter, cur, rand1, rand2, best_fit, best_positions,
                   parts, result, hist>>

\* while rand2 == rand3 || rand1 == rand3 { rand3 = rng.gen_range(..) }
Redraw3 ==
    /\ pc = "while3"
    /\ (rand2 = rand3 \/ rand1 = rand3)
    /\ rand3' \in Range
    /\ UNCHANGED <<clustervars, inputs, pc, iter, cur, rand1, rand2, best_fit, best_positions,
                   parts, result, hist>>

\* mutant: the second rejection loop compares rand3 with rand2 only
SampledSkipsFirst ==
    \/ kind = "plane" /\ pc = "while3" /\ rand2 # rand3
    \/ kind = "line" /\ pc = "while2" /\ rand1 # rand2

\* the sample of the running iteration is complete
Sampled ==
    \/ kind = "plane" /\ pc = "while3" /\ rand2 # rand3 /\ rand1 # rand3
    \/ kind = "line" /\ pc = "while2" /\ rand1 # rand2

\* mutant: the loop counter advances by two
SerialEvaluateSkips(it) ==
    /\ hist' = [hist EXCEPT ![iter + 1] = it]
    /\ IF KeepBest(it.hypo, best_fit)
       THEN /\ best_fit' = it.hypo
            /\ best_positions' = it.positions
       ELSE UNCHANGED <<best_fit, best_positions>>
    /\ iter' = IF iter + 2 <= num_of_iterations THEN iter + 2 ELSE num_of_iterations
    /\ pc' = "for"
    /\ rand1' = 0 /\ rand2' = 0 /\ rand3' = 0
    /\ UNCHANGED <<clustervars, inputs, cur, parts, result>>

\* mutant: a better hypothesis replaces best_fit but not best_positions
SerialEvaluateStalePositions(it) ==
    /\ hist' = [hist EXCEPT ![iter + 1] = it]
    /\ IF KeepBest(it.hypo, best_fit)
       THEN best_fit' = it.hypo
       ELSE UNCHANGED best_fit
    /\ iter' = iter + 1
    /\ pc' = "for"
    /\ rand1' = 0 /\ rand2' = 0 /\ rand3' = 0
    /\ UNCHANGED <<clustervars, inputs, cur, parts, result, best_positions>>

\* serial path: rest of the loop body (hypothesis, scoring, keep the best)
SerialEvaluate(it) ==
    /\ hist' = [hist EXCEPT ![iter + 1] = it]
    /\ IF KeepBest(it.hypo, best_fit)
       THEN /\ best_fit' = it.hypo
            /\ best_positions' = it.positions
       ELSE UNCHANGED <<best_fit, best_positions>>
    /\ iter' = iter + 1
    /\ pc' = "for"
    /\ rand1' = 0 /\ rand2' = 0 /\ rand3' = 0
    /\ UNCHANGED <<clustervars, inputs, cur, parts, result>>

\* parallel path: rest of the map closure; the task's result is its own
ParEvaluate(it) ==
    /\ hist' = [hist EXCEPT ![cur] = it]
    /\ parts' = [parts EXCEPT ![cur] = it]
    /\ cur' = 0
    /\ pc' = "par"
    /\ rand1' = 0 /\ rand2' = 0 /\ rand3' = 0
    /\ UNCHANGED <<clustervars, inputs, iter, best_fit, best_positions, result>>

ransac_plane_serial == ~parallel /\ Sampled /\ kind = "plane" /\ SerialEvaluate(PlaneIteration)
ransac_line_serial == ~parallel /\ Sampled /\ kind = "line" /\ SerialEvaluate(LineIteration)
ransac_plane_par == parallel /\ Sampled /\ kind = "plane" /\ ParEvaluate(PlaneIteration)
ransac_line_par == parallel /\ Sampled /\ kind = "line" /\ ParEvaluate(LineIteration)

\* serial path: return (best_fit, best_positions) after the loop
SerialReturn ==
    /\ pc = "for"
    /\ iter = num_of_iterations
    /\ result' = <<best_fit, best_positions>>
    /\ pc' = "returned"
    /\ UNCHANGED <<clustervars, inputs, iter, cur, rand1, rand2, rand3, best_fit,
                   best_positions, parts, hist>>

\* mutant: the reduction hands its operands over in the opposite order
ParReduceSwapped(j) ==
    /\ pc = "par"
    /\ j \in 1 .. (Len(parts) - 1)
    /\ parts[j].done /\ parts[j + 1].done
    /\ \A i \in 1 .. Len(parts) : parts[i].done
    /\ parts' = [i \in 1 .. (Len(parts) - 1) |->
                    IF i < j THEN parts[i]
                    ELSE IF i = j THEN MaxBy(parts[j + 1], parts[j])
                    ELSE parts[i + 1]]
    /\ UNCHANGED <<clustervars, inputs, pc, iter, cur, rand1, rand2, rand3, best_fit,
                   best_positions, result, hist>>

\* parallel path: max_by reduces two adjacent results into one
ParReduce(j) ==
    /\ pc = "par"
    /\ j \in 1 .. (Len(parts) - 1)
    /\ parts[j].done /\ parts[j + 1].done
    /\ \A i \in 1 .. Len(parts) : parts[i].done
    /\ parts' = [i \in 1 .. (Len(parts) - 1) |->
                    IF i < j THEN parts[i]
                    ELSE IF i = j THEN MaxBy(parts[j], parts[j + 1])
                    ELSE parts[i + 1]]
    /\ UNCHANGED <<clustervars, inputs, pc, iter, cur, rand1, rand2, rand3, best_fit,
                   best_positions, result, hist>>

\* parallel path: .unwrap() of the reduced value
ParReturn ==
    /\ pc = "par"
    /\ Len(parts) = 1
    /\ parts[1].done
    /\ result' = <<parts[1].hypo, parts[1].positions>>
    /\ pc' = "returned"
    /\ UNCHANGED <<clustervars, inputs, iter, cur, rand1, rand2, rand3, best_fit,
                   best_positions, parts, hist>>

\* parallel path: max_by of no item is None and .unwrap() panics
ParUnwrapNone ==
    /\ pc = "par"
    /\ num_of_iterations = 0
    /\ pc' = "panicked"
    /\ UNCHANGED <<clustervars, inputs, iter, cur, rand1, rand2, rand3, best_fit,
                   best_positions, parts, result, hist>>

NextFit ==
    \/ Dispatch
    \/ SerialDraw1
    \/ \E i \in 1 .. MaxIter : ParDraw1(i)
    \/ DrawPanic
    \/ Draw2
    \/ Redraw2
    \/ Draw3
    \/ Redraw3
    \/ ransac_plane_serial
    \/ ransac_line_serial
    \/ ransac_plane_par
    \/ ransac_line_par
    \/ SerialReturn
    \/ \E j \in 1 .. MaxIter : ParReduce(j)
    \/ ParReturn
    \/ ParUnwrapNone

Spec == InitFit /\ [][NextFit]_vars

(* ------ the points (i, 0, 0), threshold 0.01, 20 iterations, serial ------ *)
\* the scenario's cloud, cut to its first CollinearPts points
CollinearCloud == [i \in 1 .. CollinearPts |-> Vec(i - 1, 0, 0)]

InitCollinear ==
    /\ ClusterIdle
    /\ kind = "plane"
    /\ parallel = FALSE
    /\ buffer = CollinearCloud
    /\ distance_threshold = Rat(1, 100)
    /\ num_of_iterations = 20
    /\ pc = "call"
    /\ iter = 0
    /\ cur = 0
    /\ rand1 = 0 /\ rand2 = 0 /\ rand3 = 0
    /\ best_fit = InitialFit(kind)
    /\ best_positions = <<>>
    /\ parts = <<>>
    /\ result = <<>>
    /\ hist = [i \in 1 .. num_of_iterations |-> Pending]

NextCollinear ==
    \/ Dispatch
    \/ SerialDraw1
    \/ Draw2
    \/ Redraw2
    \/ Draw3
    \/ Redraw3
    \/ ransac_plane_serial
    \/ SerialReturn

SpecCollinear == InitCollinear /\ [][NextCollinear]_vars

(* The parallel path with enough iterations for the reduction to have more
   than one grouping: a line fit on four points (three of them collinear) and
   a plane fit on three points. *)
ParIters == 3
ParLineCloud == << Vec(0, 0, 0), Vec(1, 0, 0), Vec(2, 0, 0), Vec(0, 1, 0) >>
ParPlaneCloud == << Vec(0, 0, 0), Vec(1, 0, 0), Vec(0, 1, 0) >>

InitPar ==
    /\ ClusterIdle
    /\ \/ kind = "line" /\ buffer = ParLineCloud
       \/ kind = "plane" /\ buffer = ParPlaneCloud
    /\ parallel = TRUE
    /\ distance_threshold = Rat(1, 2)
    /\ num_of_iterations = ParIters
    /\ pc = "call"
    /\ iter = 0
    /\ cur = 0
    /\ rand1 = 0 /\ rand2 = 0 /\ rand3 = 0
    /\ best_fit = InitialFit(kind)
    /\ best_positions = <<>>
    /\ parts = <<>>
    /\ result = <<>>
    /\ hist = [i \in 1 .. num_of_iterations |-> Pending]

NextPar ==
    \/ Dispatch
    \/ \E i \in 1 .. ParIters : ParDraw1(i)
    \/ Draw2
    \/ Redraw2
    \/ Draw3
    \/ Redraw3
    \/ ransac_plane_par
    \/ ransac_line_par
    \/ \E j \in 1 .. ParIters : ParReduce(j)
    \/ ParReturn

SpecPar == InitPar /\ [][NextPar]_vars

(* Both paths on sources with at least the minimum sample size and at least
   one iteration, run under fairness: the code keeps running, and the random
   draws are fair, so that a rejection loop eventually draws an index that
   ends it. *)
InitFair ==
    /\ ClusterIdle
    /\ \/ kind = "line" /\ buffer = ParLineCloud
       \/ kind = "plane" /\ buffer = ParPlaneCloud
    /\ parallel \in BOOLEAN
    /\ distance_threshold = Rat(1, 2)
    /\ num_of_iterations \in 1 .. ParIters
    /\ pc = "call"
    /\ iter = 0
    /\ cur = 0
    /\ rand1 = 0 /\ rand2 = 0 /\ rand3 = 0
    /\ best_fit = InitialFit(kind)
    /\ best_positions = <<>>
    /\ parts = <<>>
    /\ result = <<>>
    /\ hist = [i \in 1 .. num_of_iterations |-> Pending]

NextFair ==
    \/ Dispatch
    \/ SerialDraw1
    \/ \E i \in 1 .. ParIters : ParDraw1(i)
    \/ Draw2
    \/ Redraw2
    \/ Draw3
    \/ Redraw3
    \/ ransac_plane_serial
    \/ ransac_line_serial
    \/ ransac_plane_par
    \/ ransac_line_par
    \/ SerialReturn
    \/ \E j \in 1 .. ParIters : ParReduce(j)
    \/ ParReturn

\* a redraw that ends its rejection loop
Redraw2Exits == Redraw2 /\ rand2' # rand1
Redraw3Exits == Redraw3 /\ rand3' # rand1 /\ rand3' # rand2

\* the steps other than the rest of the loop body
Control ==
    \/ Dispatch
    \/ SerialDraw1
    \/ \E i \in 1 .. ParIters : ParDraw1(i)
    \/ Draw2
    \/ Redraw2
    \/ Draw3
    \/ Redraw3
    \/ SerialReturn
    \/ \E j \in 1 .. ParIters : ParReduce(j)
    \/ ParReturn
\* the rest of the loop body seen from outside: it can be taken exactly when
\* the sample is complete, and only the ransac_* steps take it
Evaluated == Sampled /\ pc' \in {"for", "par"}

SpecFair ==
    /\ InitFair /\ [][NextFair]_vars
    /\ WF_vars(Control) /\ WF_pc(Evaluated)
    /\ WF_vars(Redraw2Exits) /\ WF_vars(Redraw3Exits)

(* ========================= cluster extraction ========================== *)
MaxTree == 4

\* the positions the items of a tree are drawn from: a chain with steps of 10
\* along x (neighbours are 10 apart, the others 20 or 30); a position may repeat
ItemCoords == { Vec(0, 0, 0), Vec(10, 0, 0), Vec(20, 0, 0), Vec(30, 0, 0) }

RECURSIVE SeqsOver(_, _)
SeqsOver(S, n) ==
    IF n = 0 THEN { <<>> }
    ELSE LET shorter == SeqsOver(S, n - 1)
         IN  shorter \cup { Append(s, x) : s \in { t \in shorter : Len(t) = n - 1 }, x \in S }

Trees == SeqsOver(ItemCoords, MaxTree)

\* the radii a caller asks for: 1.5 and 15
Radii == { Rat(3, 2), Rat(15, 1) }

\* the five points at x = 0,1,2,3,4, in every iteration order of the tree
LinePoints == { Vec(0, 0, 0), Vec(1, 0, 0), Vec(2, 0, 0), Vec(3, 0, 0), Vec(4, 0, 0) }
LineTrees == { t \in [1 .. 5 -> LinePoints] : \A i, j \in 1 .. 5 : i # j => t[i] # t[j] }

\* mutant: the queries use a radius of 1.5
QueryRadiusSmall == Rat(3, 2)
\* the radius of every query: the literal 15.0
QueryRadius == Rat(15, 1)

\* tree.within_radius(item, r): the items at a distance below r of the item
\* (the positions used here have no pair at a distance of exactly r)
within_radius(t, center, r) ==
    { i \in 1 .. Len(t) : Norm2(Sub(t[i], t[center])) * r.den * r.den < r.num * r.num }

\* impl PartialEq for Item: equality of the coordinates
ItemEq(t, i, j) == t[i][1] = t[j][1] /\ t[i][2] = t[j][2] /\ t[i][3] = t[j][3]

\* mutant: membership by identity of the item
ContainsIdentity(t, queue, i) == \E k \in 1 .. Len(queue) : queue[k] = i
\* q.contains(&i)
Contains(t, queue, i) == \E k \in 1 .. Len(queue) : ItemEq(t, queue[k], i)

\* the items of S by ascending index
RECURSIVE Ascending(_)
Ascending(S) == IF S = {} THEN <<>> ELSE <<Min(S)>> \o Ascending(S \ {Min(S)})

Reverse(s) == [i \in 1 .. Len(s) |-> s[Len(s) + 1 - i]]

\* the order in which a query hands out its result is the kd-tree's own:
\* the model takes the ascending and the descending one
Orders(S) == { Ascending(S), Reverse(Ascending(S)) }

\* mutant: every returned item is pushed to the queue
RECURSIVE PushLoopNoCheck(_, _, _, _, _)
PushLoopNoCheck(t, order, k, queue, proc) ==
    IF k > Len(order) THEN [q |-> queue, processed |-> proc]
    ELSE PushLoopNoCheck(t, order, k + 1, Append(queue, order[k]), Append(proc, order[k]))

\* mutant: processed takes an item only when the queue takes it
RECURSIVE PushLoopVisitedOnce(_, _, _, _, _)
PushLoopVisitedOnce(t, order, k, queue, proc) ==
    IF k > Len(order) THEN [q |-> queue, processed |-> proc]
    ELSE IF Contains(t, queue, order[k])
         THEN PushLoopVisitedOnce(t, order, k + 1, queue, proc)
         ELSE PushLoopVisitedOnce(t, order, k + 1, Append(queue, order[k]),
                                  Append(proc, order[k]))

\* for i in set { if !q.contains(&i) { q.push(&i) } processed.push(i) }
RECURSIVE PushLoop(_, _, _, _, _)
PushLoop(t, order, k, queue, proc) ==
    IF k > Len(order) THEN [q |-> queue, processed |-> proc]
    ELSE PushLoop(t, order, k + 1,
                  IF Contains(t, queue, order[k]) THEN queue ELSE Append(queue, order[k]),
                  Append(proc, order[k]))

\* while processed.len() < tree.len() && counter < q.len()
WhileCond == Len(processed) < Len(tree) /\ counter < Len(q)

ClusterStart ==
    /\ FitIdle
    /\ cpc = "for"
    /\ p = 0
    /\ c = <<>>
    /\ q = <<>>
    /\ processed = <<>>
    /\ counter = 0

InitCluster ==
    /\ tree \in Trees
    /\ radius \in Radii
    /\ ClusterStart

InitLine ==
    /\ tree \in LineTrees
    /\ radius = Rat(3, 2)
    /\ ClusterStart

\* for p in tree.iter() { q.push(p); ...
SeedPush ==
    /\ cpc = "for"
    /\ p < Len(tree)
    /\ q' = Append(q, p + 1)
    /\ cpc' = "while"
    /\ UNCHANGED <<fitvars, tree, radius, p, c, processed, counter>>

\* mutant: a round that leaves the cursor where it is
ExpandNoAdvance ==
    /\ cpc = "while"
    /\ WhileCond
    /\ \E order \in Orders(within_radius(tree, q[counter + 1], QueryRadius)) :
          LET r == PushLoop(tree, order, 1, q, processed)
          IN  /\ q' = r.q
              /\ processed' = r.processed
    /\ UNCHANGED <<fitvars, tree, radius, cpc, p, c, counter>>

\* one round of the while loop: a radius query around q[counter]
Expand ==
    /\ cpc = "while"
    /\ WhileCond
    /\ \E order \in Orders(within_radius(tree, q[counter + 1], QueryRadius)) :
          LET r == PushLoop(tree, order, 1, q, processed)
          IN  /\ q' = r.q
              /\ processed' = r.processed
    /\ counter' = counter + 1
    /\ UNCHANGED <<fitvars, tree, radius, cpc, p, c>>

\* mutant: processed is kept from one seed to the next
EmitKeepsProcessed ==
    /\ cpc = "while"
    /\ ~WhileCond
    /\ c' = Append(c, q)
    /\ q' = <<>>
    /\ counter' = 0
    /\ p' = p + 1
    /\ cpc' = "for"
    /\ UNCHANGED <<fitvars, tree, radius, processed>>

\* mutant: the queue is kept from one seed to the next
EmitNoReset ==
    /\ cpc = "while"
    /\ ~WhileCond
    /\ c' = Append(c, q)
    /\ processed' = <<>>
    /\ counter' = 0
    /\ p' = p + 1
    /\ cpc' = "for"
    /\ UNCHANGED <<fitvars, tree, radius, q>>

\* ... c.push(q.clone()); q = vec![]; processed = vec![]; counter = 0; }
Emit ==
    /\ cpc = "while"
    /\ ~WhileCond
    /\ c' = Append(c, q)
    /\ q' = <<>>
    /\ processed' = <<>>
    /\ counter' = 0
    /\ p' = p + 1
    /\ cpc' = "for"
    /\ UNCHANGED <<fitvars, tree, radius>>

\* the loop over the seeds is over: c is returned
ReturnClusters ==
    /\ cpc = "for"
    /\ p = Len(tree)
    /\ cpc' = "returned"
    /\ UNCHANGED <<fitvars, tree, radius, p, c, q, processed, counter>>

NextCluster ==
    \/ SeedPush
    \/ Expand
    \/ Emit
    \/ ReturnClusters

SpecCluster == InitCluster /\ [][NextCluster]_vars
SpecLine == InitLine /\ [][NextCluster]_vars
\* a round of the while loop seen from outside: it can be taken exactly when
\* Expand can, and Expand is the only step that raises the cursor
Round == cpc = "while" /\ WhileCond /\ counter' = counter + 1
\* the function is sequential code that runs on until it returns: the step
\* the code is at is eventually taken
SpecClusterFair ==
    /\ InitCluster /\ [][NextCluster]_vars
    /\ WF_vars(SeedPush) /\ WF_counter(Round) /\ WF_vars(Emit) /\ WF_vars(ReturnClusters)

(* =============================== claims ================================ *)
Returned == pc = "returned"
ReturnedModel == result[1]
ReturnedInliers == result[2]

\* the minimum sample size of a fit
MinSample == IF kind = "plane" THEN 3 ELSE 2

\* the points of the source below the threshold of a model, counted afresh
InlierCount(model) ==
    Cardinality({ i \in 1 .. BufLen :
        LessThan(Distance(kind, buffer[i], model), distance_threshold) })

\* the greatest ranking among the hypotheses of all iterations
MaxRanking ==
    CHOOSE m \in { hist[i].hypo.ranking : i \in 1 .. num_of_iterations } :
        \A i \in 1 .. num_of_iterations : hist[i].hypo.ranking <= m
\* the earliest iteration whose hypothesis has the greatest ranking
EarliestBest == Min({ i \in 1 .. num_of_iterations : hist[i].hypo.ranking = MaxRanking })

\* C1: a returned inlier list has as many entries as the returned model's
\* ranking, and that number is the count of the points of the source whose
\* distance to the returned model is strictly below the threshold.
C1_InliersMatchRanking ==
    Returned =>
        /\ Len(ReturnedInliers) = ReturnedModel.ranking
        /\ ReturnedModel.ranking = InlierCount(ReturnedModel)
C1_Witness ==
    /\ Returned
    /\ ReturnedModel.ranking > 0
    /\ ReturnedModel.ranking < BufLen

\* C2 (as claimed): when several iterations reach the greatest ranking (here:
\* a ranking above 0, so that the tie is between hypotheses with inliers), the
\* hypothesis of the earliest of them is returned with its inlier list.
C2_EarliestOfTiesReturned ==
    ( /\ Returned
      /\ num_of_iterations >= 2
      /\ MaxRanking > 0
      /\ Cardinality({ i \in 1 .. num_of_iterations :
                         hist[i].hypo.ranking = MaxRanking }) >= 2 )
    => result = <<hist[EarliestBest].hypo, hist[EarliestBest].positions>>

\* C3: the ranking of the returned model is the greatest ranking over the
\* hypotheses of all iterations.
C3_ReturnedRankingIsMax ==
    Returned =>
        /\ \A i \in 1 .. num_of_iterations :
              hist[i].done /\ hist[i].hypo.ranking <= ReturnedModel.ranking
        /\ num_of_iterations >= 1 => ReturnedModel.ranking = MaxRanking
C3_Witness ==
    /\ Returned
    /\ num_of_iterations = 2
    /\ hist[1].hypo.ranking > hist[2].hypo.ranking
    /\ hist[2].hypo.ranking > 0

\* C4 (as claimed): with fewer points than the minimum sample size (and a
\* valid threshold and iteration count) no index is ever sampled and the fit
\* does not fault.
C4_NoSamplingBelowMinimum ==
    (BufLen < MinSample /\ distance_threshold.num > 0 /\ num_of_iterations > 0)
        => pc \notin {"draw2", "while2", "while3", "panicked"}

\* C5 (as claimed): with zero iterations (and a valid source and threshold)
\* the fit neither returns a model nor aborts.
C5_ZeroIterationsRejected ==
    (num_of_iterations = 0 /\ BufLen >= MinSample /\ distance_threshold.num > 0)
        => pc \notin {"returned", "panicked"}

\* C6 (as claimed): with a threshold <= 0 (and a valid source and iteration
\* count) no index is sampled and no model is returned.
C6_NonPositiveThresholdRejected ==
    (distance_threshold.num <= 0 /\ BufLen >= MinSample /\ num_of_iterations > 0)
        => pc \notin {"draw2", "while2", "while3", "returned"}

\* the sample of the running iteration is degenerate: three collinear
\* positions (plane), two coincident positions (line)
DegenerateSample ==
    IF kind = "plane"
    THEN Cross(Sub(Position(rand2), Position(rand1)),
               Sub(Position(rand3), Position(rand1))) = <<0, 0, 0>>
    ELSE Position(rand1) = Position(rand2)
\* the hypothesis the step has just recorded
Recorded == IF parallel THEN hist'[cur] ELSE hist'[iter + 1]
DegenerateStep ==
    (Sampled /\ DegenerateSample) =>
        /\ pc' # "panicked"
        /\ Recorded.done
        /\ Recorded.hypo.ranking = 0
        /\ Recorded.positions = <<>>
        /\ (~parallel /\ best_fit.ranking > 0) =>
              (best_fit' = best_fit /\ best_positions' = best_positions)
NotPreferred ==
    (Returned /\ \E i \in 1 .. num_of_iterations : hist[i].hypo.ranking > 0)
        => ReturnedModel.ranking > 0
\* C7: a degenerate sample raises no fault and yields a hypothesis of ranking
\* 0 with an empty inlier list, which never replaces or beats a hypothesis of
\* ranking greater than 0.
C7_DegenerateScoresZero == [][DegenerateStep]_vars /\ []NotPreferred
\* a hypothesis from a degenerate sample was recorded next to one with inliers
IsDegenerateHypo(h) ==
    IF kind = "plane" THEN h.a = 0 /\ h.b = 0 /\ h.c = 0 ELSE h.first = h.second
C7_Witness ==
    /\ Returned
    /\ num_of_iterations = 2
    /\ IsDegenerateHypo(hist[2].hypo)
    /\ hist[1].hypo.ranking > 0
    /\ ReturnedModel = hist[1].hypo

\* C8 (as claimed): on the points (i, 0, 0) every point is an inlier of the
\* returned plane.
C8_AllPointsInliers == Returned => ReturnedModel.ranking = BufLen
\* C8 (amended): on the points (i, 0, 0) the returned plane has ranking 0 and
\* no inlier, whatever indices the iterations sample.
C8_CollinearRankingZero ==
    Returned => (ReturnedModel.ranking = 0 /\ ReturnedInliers = <<>>)
C8_Witness ==
    /\ Returned
    /\ buffer = CollinearCloud
    /\ \A i \in 1 .. num_of_iterations : hist[i].done /\ hist[i].hypo.ranking = 0

\* the positions of a cluster
ClusterPositions(k) == { tree[c[k][j]] : j \in 1 .. Len(c[k]) }

RECURSIVE Reachable(_, _, _)
Reachable(t, S, r) ==
    LET N == S \cup { j \in 1 .. Len(t) : \E i \in S : j \in within_radius(t, i, r) }
    IN  IF N = S THEN S ELSE Reachable(t, N, r)

\* C10 (as claimed): the cluster of a seed holds every point reachable from
\* the seed through a chain of radius-neighbours.
C10_ClusterHoldsComponent ==
    \A k \in 1 .. Len(c) :
        { tree[i] : i \in Reachable(tree, {k}, radius) } \subseteq ClusterPositions(k)

\* C11 (as claimed): every member of a cluster is linked to the cluster's
\* seed by a chain of steps shorter than the caller's radius; of two groups
\* farther apart than that radius, a cluster seeded in one holds no point of
\* the other.
C11_MembersReachableFromSeed ==
    \A k \in 1 .. Len(c) :
        ClusterPositions(k) \subseteq { tree[i] : i \in Reachable(tree, {c[k][1]}, radius) }

\* the items a round of the while loop has just received from its query
QueryResult == { processed'[j] : j \in (Len(processed) + 1) .. Len(processed') }
\* C12 (as claimed): the query of every round of the while loop returns the
\* items within the caller's radius of the item under the cursor.
C12_QueryUsesCallerRadius ==
    [][ (cpc = "while" /\ WhileCond)
            => QueryResult = within_radius(tree, q[counter + 1], radius) ]_vars

\* C13: the clusters returned are as many as the items of the index (none
\* for an empty index); the k-th cluster is not empty and starts with the
\* k-th item of the iteration order, its seed.
C13_OneClusterPerSeed ==
    /\ Len(c) = p
    /\ cpc = "returned" =>
          /\ Len(c) = Len(tree)
          /\ \A k \in 1 .. Len(c) : Len(c[k]) >= 1 /\ c[k][1] = k
C13_Witness ==
    /\ cpc = "returned"
    /\ Len(tree) = 3
    /\ Len(c[1]) = 2
    /\ Len(c[3]) = 1

\* a round of the while loop moves the cursor on by one, to at most the
\* number of items of the index
RoundAdvances ==
    (cpc = "while" /\ WhileCond) =>
        (counter' = counter + 1 /\ counter' <= Len(tree))
\* C14: the while loop of every seed ends and the function returns; each
\* round moves the cursor on by one, and a seed has at most as many rounds as
\* the index has items.
C14_Terminates ==
    /\ [][RoundAdvances]_vars
    /\ [](counter <= Len(q) /\ Len(q) <= Len(tree))
    /\ (cpc = "while") ~> (cpc = "for")
    /\ <>(cpc = "returned")
C14_Witness ==
    /\ cpc = "returned"
    /\ Len(tree) = 4
    /\ \E k \in 1 .. Len(c) : Len(c[k]) = 4

\* the indices the running iteration looks its positions up with
SampleValid ==
    /\ rand1 \in Range /\ rand2 \in Range /\ rand1 # rand2
    /\ kind = "plane" => (rand3 \in Range /\ rand3 # rand1 /\ rand3 # rand2)
\* C15: whenever an iteration looks up its positions and builds its
\* hypothesis, its sampled indices (three for a plane, two for a line) are
\* pairwise distinct and lie in 0 .. n-1.
C15_SampleDistinctInRange == [][hist' # hist => SampleValid]_vars
C15_Witness ==
    /\ kind = "plane"
    /\ Sampled
    /\ rand3 < rand2 /\ rand2 < rand1
    /\ \E i \in 1 .. num_of_iterations : hist[i].done

\* the hypothesis and the inlier list of iteration i
Outcome(i) == <<hist[i].hypo, hist[i].positions>>
\* what the serial loop keeps of the hypotheses of iterations 1 .. n
RECURSIVE SerialKeeps(_)
SerialKeeps(n) ==
    IF n = 0 THEN <<InitialFit(kind), <<>>>>
    ELSE LET kept == SerialKeeps(n - 1)
         IN  IF KeepBest(hist[n].hypo, kept[1]) THEN Outcome(n) ELSE kept
\* what max_by keeps of the hypotheses of iterations 1 .. n
RECURSIVE ParKeeps(_)
ParKeeps(n) == IF n = 1 THEN hist[1] ELSE MaxBy(ParKeeps(n - 1), hist[n])
\* C16 (as claimed): for a valid threshold, the model and the inlier list a
\* fit returns are those the other path returns from the same hypotheses of
\* the same iterations: the serial and the parallel path agree.
C16_PathsAgree ==
    (Returned /\ num_of_iterations >= 1 /\ distance_threshold.num > 0) =>
        /\ result = SerialKeeps(num_of_iterations)
        /\ result = <<ParKeeps(num_of_iterations).hypo,
                      ParKeeps(num_of_iterations).positions>>

\* the latest iteration whose hypothesis has the greatest ranking
LatestBest ==
    CHOOSE i \in 1 .. num_of_iterations :
        /\ hist[i].hypo.ranking = MaxRanking
        /\ \A j \in 1 .. num_of_iterations : hist[j].hypo.ranking = MaxRanking => j <= i
\* the result as a function of the path and of the iterations' hypotheses
ResultOf ==
    IF parallel THEN Outcome(LatestBest)
    ELSE IF num_of_iterations >= 1 /\ MaxRanking > 0 THEN Outcome(EarliestBest)
    ELSE <<InitialFit(kind), <<>>>>
\* C17: the returned model and inlier list are a function of the source, the
\* threshold, the iteration count, the path and the hypotheses of the
\* iterations (each a function of its sampled indices): two invocations that
\* agree on these return the same.
C17_ResultDetermined == Returned => result = ResultOf
C17_Witness ==
    /\ Returned
    /\ num_of_iterations = 2
    /\ hist[1].hypo.ranking = hist[2].hypo.ranking
    /\ hist[1].hypo.ranking > 0
    /\ hist[1].hypo # hist[2].hypo

\* every iteration has run and none of the hypotheses has an inlier
AllRankingsZero ==
    /\ num_of_iterations >= 1
    /\ \A i \in 1 .. num_of_iterations : hist[i].done /\ hist[i].hypo.ranking = 0
\* the steps that lead from the last iteration to the return
ReturnSteps == SerialReturn \/ ParReturn \/ \E j \in 1 .. MaxIter : ParReduce(j)
\* C18: when the hypothesis of every iteration has ranking 0 the fit, serial
\* or parallel, does not fault and goes on to return a model of ranking 0
\* with an empty inlier list.
C18_ZeroRankingReturned ==
    AllRankingsZero =>
        /\ pc # "panicked"
        /\ Returned => (ReturnedModel.ranking = 0 /\ ReturnedInliers = <<>>)
        /\ ~Returned => ENABLED ReturnSteps
C18_Witness ==
    /\ Returned
    /\ AllRankingsZero
    /\ num_of_iterations = 2
    /\ distance_threshold.num > 0

\* C19 (as claimed): the line a line fit returns (valid threshold, at least
\* one iteration, at least two points) is given by two different points.
C19_LineEndpointsDistinct ==
    ( /\ Returned
      /\ kind = "line"
      /\ num_of_iterations >= 1
      /\ distance_threshold.num > 0 )
    => ReturnedModel.first # ReturnedModel.second

\* the distance is finite and exactly the threshold
AtThreshold(distance, threshold) ==
    /\ distance.den2 > 0
    /\ threshold.num >= 0
    /\ distance.num2 * threshold.den * threshold.den
          = threshold.num * threshold.num * distance.den2
\* the indices of the inlier list of iteration i
InlierSet(i) == { hist[i].positions[j] : j \in 1 .. Len(hist[i].positions) }
RECURSIVE Returned_by_queries(_)
Returned_by_queries(n) ==
    IF n = 0 THEN 0
    ELSE Returned_by_queries(n - 1) + Cardinality(within_radius(tree, q[n], QueryRadius))
\* processed holds every item every query of the seed has returned
CountsEveryHit ==
    cpc = "while" => Len(processed) = Returned_by_queries(counter)
\* processed only grows within a seed, and once it has reached the size of
\* the index the seed's loop is left without another query
NoQueryOnceFull ==
    /\ (cpc = "while" /\ cpc' = "while") =>
          (Len(processed') >= Len(processed) /\ SubSeq(processed', 1, Len(processed)) = processed)
    /\ (cpc = "while" /\ Len(processed) >= Len(tree)) =>
          (cpc' = "for" /\ c' = Append(c, q))
\* C22: within a seed, processed (visited_count) counts every item returned
\* by the radius queries made so far, items met again included; it never
\* decreases, and once it has reached the size of the index no further query
\* is made for the seed, even with queue entries left beyond the cursor.
C22_VisitedCountsHits == []CountsEveryHit /\ [][NoQueryOnceFull]_vars
C22_Witness ==
    /\ cpc = "while"
    /\ Len(processed) >= Len(tree)
    /\ counter < Len(q)
    /\ Len(processed) > Len(q)

\* no two entries of the sequence are equal items (PartialEq of Item)
NoEqualEntries(queue) ==
    \A a, b \in 1 .. Len(queue) : a # b => ~ItemEq(tree, queue[a], queue[b])
\* C23: at every point of a seed's expansion the queue holds no two equal
\* items and counter <= q.len() <= tree.len(); every emitted cluster is
\* therefore free of duplicates and no longer than the index.
C23_QueueDuplicateFree ==
    /\ NoEqualEntries(q)
    /\ counter <= Len(q) /\ Len(q) <= Len(tree)
    /\ \A k \in 1 .. Len(c) : NoEqualEntries(c[k]) /\ Len(c[k]) <= Len(tree)
C23_Witness ==
    /\ cpc = "while"
    /\ Len(tree) = 4
    /\ Len(q) = 3
    /\ counter = 2
    /\ Len(processed) > Len(q)
    /\ Len(c) >= 1

\* the queues the while loop can end with when it is started on the given
\* queue, processed list and cursor
RECURSIVE LoopResults(_, _, _, _)
LoopResults(t, queue, proc, cnt) ==
    IF Len(proc) < Len(t) /\ cnt < Len(queue)
    THEN UNION { LoopResults(t, PushLoop(t, order, 1, queue, proc).q,
                             PushLoop(t, order, 1, queue, proc).processed, cnt + 1) :
                 order \in Orders(within_radius(t, queue[cnt + 1], QueryRadius)) }
    ELSE { queue }
\* the clusters a seed gives when it is the only seed ever expanded
FreshClusters(t, seed) == LoopResults(t, <<seed>>, <<>>, 0)
\* between two seeds the queue, processed and the cursor are empty resp. 0,
\* and every emitted cluster is one the seed gives on its own
SeedsIndependent ==
    cpc = "for" =>
        /\ q = <<>> /\ processed = <<>> /\ counter = 0
        /\ \A k \in 1 .. Len(c) : c[k] \in FreshClusters(tree, k)
\* an emitted cluster is never changed
EmittedKept == Len(c') >= Len(c) /\ SubSeq(c', 1, Len(c)) = c
\* C24: the queue, processed and the cursor are reset before each seed: the
\* cluster of a seed is the one the seed, the index and the radius give on
\* their own, whatever seeds came before, and later seeds leave the clusters
\* already emitted as they are.
C24_SeedsIndependent == []SeedsIndependent /\ [][EmittedKept]_vars
C24_Witness ==
    /\ cpc = "for"
    /\ Len(c) = 3
    /\ Len(c[1]) >= 2
    /\ Len(c[3]) >= 2
    /\ c[3] # c[1]

\* a step of a parallel iteration leaves the point source as it is and writes
\* the hypothesis and inlier list of its own iteration only
TaskWritesOwn ==
    hist' # hist =>
        /\ buffer' = buffer
        /\ \A i \in 1 .. Len(hist) : i # cur => (hist'[i] = hist[i] /\ parts'[i] = parts[i])
        /\ parts'[cur] = hist'[cur]
\* the reduction leaves the iterations' hypotheses as they are
ReduceKeepsHist ==
    (pc = "par" /\ parts' # parts) => (hist' = hist /\ Len(parts') = Len(parts) - 1)
\* whatever order the iterations ran in and however the reduction grouped
\* them, the result is the one max_by gives from left to right
SameUnderEveryGrouping ==
    (Returned /\ parallel) =>
        result = <<ParKeeps(num_of_iterations).hypo, ParKeeps(num_of_iterations).positions>>
\* C25: on the parallel path an iteration only reads the point source and
\* writes only its own hypothesis and inlier list, and for given samples of
\* the iterations the returned model and inlier list are the same under every
\* interleaving of the iterations and every grouping of the reduction.
C25_ParallelDeterministic ==
    [][TaskWritesOwn /\ ReduceKeepsHist]_vars /\ []SameUnderEveryGrouping
C25_Witness ==
    /\ Returned
    /\ parallel
    /\ num_of_iterations = 3
    /\ hist[1].hypo.ranking = hist[2].hypo.ranking
    /\ hist[2].hypo.ranking = hist[3].hypo.ranking
    /\ hist[1].hypo # hist[3].hypo /\ hist[2].hypo # hist[3].hypo

\* the indices of the points of the source below the threshold of a model
InliersOf(model) ==
    { n \in Range : LessThan(Distance(kind, buffer[n + 1], model), distance_threshold) }
\* C26: the returned inlier list holds pairwise distinct indices of 0 .. n-1
\* in ascending order, and they are exactly the inliers of the returned
\* model, not those of another iteration's hypothesis.
C26_InlierListOfReturnedModel ==
    Returned =>
        /\ \A j \in 1 .. Len(ReturnedInliers) : ReturnedInliers[j] \in Range
        /\ \A j \in 1 .. (Len(ReturnedInliers) - 1) :
              ReturnedInliers[j] < ReturnedInliers[j + 1]
        /\ { ReturnedInliers[j] : j \in 1 .. Len(ReturnedInliers) } = InliersOf(ReturnedModel)
C26_Witness ==
    /\ Returned
    /\ num_of_iterations = 2
    /\ Len(ReturnedInliers) >= 2
    /\ hist[1].positions # hist[2].positions
    /\ hist[1].hypo.ranking > 0 /\ hist[2].hypo.ranking > 0

\* a hypothesis is recorded once, for one iteration per step, and scored
\* against all points of the source
OncePerIteration ==
    /\ \A i \in 1 .. Len(hist) : hist[i].done => hist'[i] = hist[i]
    /\ Cardinality({ i \in 1 .. Len(hist) : hist'[i] # hist[i] }) <= 1
    /\ \A i \in 1 .. Len(hist) :
          hist'[i] # hist[i] =>
              /\ hist'[i].done
              /\ hist'[i].hypo.ranking = Cardinality(InliersOf(hist'[i].hypo))
              /\ ~parallel => i = iter + 1
\* at the return every iteration has recorded its hypothesis
AllEvaluated ==
    Returned =>
        /\ Len(hist) = num_of_iterations
        /\ \A i \in 1 .. num_of_iterations : hist[i].done
        /\ ~parallel => iter = num_of_iterations
\* C27: with at least the minimum sample size and at least one iteration the
\* fit returns (the draws being fair), after exactly num_of_iterations
\* hypotheses, each scored against all n points, none skipped, repeated or
\* cut short.
C27_TerminatesAfterIterations ==
    /\ [][OncePerIteration]_vars
    /\ []AllEvaluated
    /\ <>Returned
C27_Witness ==
    /\ Returned
    /\ num_of_iterations = 3
    /\ kind = "plane"
    /\ ~parallel

\* C28 (as claimed): the returned model (valid threshold, at least one
\* iteration) is the hypothesis of one of the iterations, with that
\* iteration's inlier list, also when every hypothesis has ranking 0.
C28_ReturnedIsAnIterationsHypothesis ==
    ( /\ Returned
      /\ num_of_iterations >= 1
      /\ distance_threshold.num > 0 )
    => \E i \in 1 .. num_of_iterations : result = Outcome(i)

\* C29: membership in the queue goes by the coordinates of an item, not by
\* which item it is: of the items of the index with the same coordinates at
\* most one is in a cluster, so a cluster has one entry per position.
C29_OneEntryPerPosition ==
    /\ \A k \in 1 .. Len(c) : Cardinality(ClusterPositions(k)) = Len(c[k])
    /\ \A i \in 1 .. Len(tree) :
          (\E a \in 1 .. Len(q) : tree[q[a]] = tree[i] /\ q[a] # i)
              => \A b \in 1 .. Len(q) : q[b] # i
C29_Witness ==
    /\ cpc = "returned"
    /\ Len(tree) = 3
    /\ tree[1] = tree[2]
    /\ tree[3] # tree[1]
    /\ Len(c[1]) = 2
    /\ ClusterPositions(1) = { tree[1], tree[3] }
====
